---- MODULE Spec2Model ----
(***************************************************************************)
(* miniactor (src/src/lib.rs): an actor is a user value moved into one     *)
(* spawned task, run_actor, which drains a tokio unbounded mpsc channel    *)
(* and calls Actor::recv once per message.  A Handle wraps the channel's   *)
(* UnboundedSender; it can be cloned and dropped, and the channel's        *)
(* producer side closes when the last Handle is dropped.                   *)
(*                                                                         *)
(* The model has one process per message loop and treats every Handle      *)
(* operation (new, send, clone, drop) as one atomic step of some caller    *)
(* task, taken at the channel operation's linearisation point.  A call of  *)
(* Actor::recv takes two steps (invocation, then return or panic), so      *)
(* callers' steps interleave with a running handler.                       *)
(***************************************************************************)
EXTENDS Integers, Sequences, FiniteSets, TLC

\* Bounds of the model (not program constants).
MaxActors == 2      \* calls of Handle::new
MaxHandles == 2     \* handles ever created, originals and clones together
MaxSends == 3       \* calls of Handle::send, over all handles

Actors == 1..MaxActors
HandleIds == 1..MaxHandles

\* A message is identified by the handle that sent it and its position in
\* that handle's stream of sends (Actor::Msg is an opaque user type).
Msgs == [from : HandleIds, seq : 1..(MaxSends + 1)]
NoMsg == [from |-> 0, seq |-> 0]

VARIABLES
    nActors,    \* number of Handle::new calls so far; actors are 1..nActors
    handles,    \* sequence of handles ever created: [actor, live, sent, cloneOf]
    mailbox,    \* mailbox[a]: messages buffered in a's unbounded channel
    rxOpen,     \* rxOpen[a]: a's UnboundedReceiver exists (not yet dropped)
    pc,         \* pc[a]: position of a's run_actor task
    cur,        \* cur[a]: the message bound to msg in run_actor, or NoMsg
    active,     \* active[a]: invocations of a's recv that have not returned
    actor,      \* actor[a]: a's state, a counter of completed recv calls
    actorDrops, \* actorDrops[a]: how many times a's actor value was dropped
    recvLog,    \* recvLog[a]: messages a's recv has been invoked with, in order
    enqueued,   \* set of messages the channel accepted (send returned Ok)
    closedWith, \* closedWith[a]: messages buffered when a's last handle was dropped
    sendRet     \* what the caller of the latest Handle::send observed

vars == <<nActors, handles, mailbox, rxOpen, pc, cur, active, actor,
          actorDrops, recvLog, enqueued, closedWith, sendRet>>

loopVars == <<mailbox, rxOpen, pc, cur, active, actor, actorDrops, recvLog>>

\* ---------------------------------------------------------------------
\* Derived state

\* The handles of actor a that are live (created and not dropped).
LiveHandles(a) ==
    {h \in 1..Len(handles) : handles[h].actor = a /\ handles[h].live}

\* tokio's tx_count of a's channel: the number of live UnboundedSenders.
LiveCount(a) == Cardinality(LiveHandles(a))

\* Number of Handle::send calls performed so far, over all handles.
RECURSIVE SumSent(_)
SumSent(n) == IF n = 0 THEN 0 ELSE handles[n].sent + SumSent(n - 1)
TotalSent == SumSent(Len(handles))

\* Number of Handle::send calls performed so far on the handles of actor a.
RECURSIVE SumSentTo(_, _)
SumSentTo(a, n) ==
    IF n = 0 THEN 0
    ELSE (IF handles[n].actor = a THEN handles[n].sent ELSE 0) + SumSentTo(a, n - 1)
SentTo(a) == SumSentTo(a, Len(handles))

\* The spec's two loop states: Running covers the spawned task up to its
\* return; Terminated is run_actor having returned.  Failed is the task
\* having unwound from a panic inside recv.
Running(a) == pc[a] \in {"Spawned", "Waiting", "InRecv"}
Terminated(a) == pc[a] = "Terminated"
Failed(a) == pc[a] = "Failed"

\* ---------------------------------------------------------------------
\* Initial state: the program has created no actor.

Init ==
    /\ nActors = 0
    /\ handles = <<>>
    /\ mailbox = [a \in Actors |-> <<>>]
    /\ rxOpen = [a \in Actors |-> FALSE]
    /\ pc = [a \in Actors |-> "Absent"]
    /\ cur = [a \in Actors |-> NoMsg]
    /\ active = [a \in Actors |-> 0]
    /\ actor = [a \in Actors |-> 0]
    /\ actorDrops = [a \in Actors |-> 0]
    /\ recvLog = [a \in Actors |-> <<>>]
    /\ enqueued = {}
    /\ closedWith = [a \in Actors |-> 0]
    /\ sendRet = "none"

\* ---------------------------------------------------------------------
\* Handle operations (steps of caller tasks)

\* Variant: new spawns a message loop but hands out a sender of the first
\* actor's channel instead of a channel of its own.
NewSharedChannel ==
    /\ nActors < MaxActors
    /\ Len(handles) < MaxHandles
    /\ nActors' = nActors + 1
    /\ handles' = Append(handles, [actor |-> 1, live |-> TRUE,
                                   sent |-> 0, cloneOf |-> 0])
    /\ rxOpen' = [rxOpen EXCEPT ![nActors + 1] = TRUE]
    /\ pc' = [pc EXCEPT ![nActors + 1] = "Spawned"]
    /\ UNCHANGED <<mailbox, cur, active, actor, actorDrops, recvLog, enqueued,
                   closedWith, sendRet>>

\* Handle::new(actor): unbounded_channel(), tokio::spawn(run_actor(..)),
\* Handle(sender).  Returns without waiting for the spawned task.
New ==
    /\ nActors < MaxActors
    /\ Len(handles) < MaxHandles
    /\ nActors' = nActors + 1
    /\ handles' = Append(handles, [actor |-> nActors + 1, live |-> TRUE,
                                   sent |-> 0, cloneOf |-> 0])
    /\ rxOpen' = [rxOpen EXCEPT ![nActors + 1] = TRUE]
    /\ pc' = [pc EXCEPT ![nActors + 1] = "Spawned"]
    /\ UNCHANGED <<mailbox, cur, active, actor, actorDrops, recvLog, enqueued,
                   closedWith, sendRet>>

\* Variant: the channel accepts a message even after its receiver is gone.
ChanSendAlways(a) == "Ok"

\* Variant: the channel only takes messages once the loop task has been
\* polled for the first time.
ChanSendAfterStart(a) == IF rxOpen[a] /\ pc[a] # "Spawned" THEN "Ok" ELSE "Err"

\* UnboundedSender::send: Err(SendError) when the receiver has been
\* dropped, otherwise the message is pushed at the tail and Ok(()).
ChanSend(a) == IF rxOpen[a] THEN "Ok" ELSE "Err"

\* Variant: the channel's result is unwrapped instead of discarded, so an
\* Err reaches the caller as a panic.
HandleSendRetUnwrap(r) == IF r = "Err" THEN "panic" ELSE "unit"

\* `let _ = self.0.send(msg);`: the channel's result is discarded and the
\* caller gets ().
HandleSendRet(r) == "unit"

\* Variant: the message is pushed at the head of the queue.
EnqueueFront(q, m) == <<m>> \o q

\* The channel's queue after a successful send of m: m is pushed at the tail.
Enqueue(q, m) == Append(q, m)

\* Variant: send runs the handler in the caller's task instead of leaving
\* it to the loop, so the actor state changes in the send itself.
SendDirect(h) ==
    /\ h \in 1..Len(handles)
    /\ handles[h].live
    /\ TotalSent < MaxSends
    /\ handles' = [handles EXCEPT ![h].sent = @ + 1]
    /\ actor' = [actor EXCEPT ![handles[h].actor] = @ + 1]
    /\ sendRet' = "unit"
    /\ UNCHANGED <<nActors, mailbox, rxOpen, pc, cur, active, actorDrops, recvLog,
                   enqueued, closedWith>>

\* Variant: the channel is bounded with room for one message, and send is
\* possible only while there is room.
SendBounded(h) ==
    /\ h \in 1..Len(handles)
    /\ handles[h].live
    /\ TotalSent < MaxSends
    /\ Len(mailbox[handles[h].actor]) < 1
    /\ LET a == handles[h].actor
           m == [from |-> h, seq |-> handles[h].sent + 1]
           r == ChanSend(a)
       IN /\ handles' = [handles EXCEPT ![h].sent = @ + 1]
          /\ mailbox' = IF r = "Ok" THEN [mailbox EXCEPT ![a] = Enqueue(@, m)]
                                    ELSE mailbox
          /\ enqueued' = IF r = "Ok" THEN enqueued \cup {m} ELSE enqueued
          /\ sendRet' = HandleSendRet(r)
    /\ UNCHANGED <<nActors, rxOpen, pc, cur, active, actor, actorDrops, recvLog,
                   closedWith>>

\* Handle::send(&self, msg)
Send(h) ==
    /\ h \in 1..Len(handles)
    /\ handles[h].live
    /\ TotalSent < MaxSends
    /\ LET a == handles[h].actor
           m == [from |-> h, seq |-> handles[h].sent + 1]
           r == ChanSend(a)
       IN /\ handles' = [handles EXCEPT ![h].sent = @ + 1]
          /\ mailbox' = IF r = "Ok" THEN [mailbox EXCEPT ![a] = Enqueue(@, m)]
                                    ELSE mailbox
          /\ enqueued' = IF r = "Ok" THEN enqueued \cup {m} ELSE enqueued
          /\ sendRet' = HandleSendRet(r)
    /\ UNCHANGED <<nActors, rxOpen, pc, cur, active, actor, actorDrops, recvLog,
                   closedWith>>

\* Variant: clone builds a handle the way Handle::new does, on a channel
\* and a message loop of its own.
CloneNewActor(h) ==
    /\ h \in 1..Len(handles)
    /\ handles[h].live
    /\ Len(handles) < MaxHandles
    /\ nActors < MaxActors
    /\ nActors' = nActors + 1
    /\ handles' = Append(handles, [actor |-> nActors + 1, live |-> TRUE,
                                   sent |-> 0, cloneOf |-> h])
    /\ rxOpen' = [rxOpen EXCEPT ![nActors + 1] = TRUE]
    /\ pc' = [pc EXCEPT ![nActors + 1] = "Spawned"]
    /\ UNCHANGED <<mailbox, cur, active, actor, actorDrops, recvLog, enqueued,
                   closedWith, sendRet>>

\* Variant: a clone can be taken from a handle that was already dropped.
CloneFromAny(h) ==
    /\ h \in 1..Len(handles)
    /\ Len(handles) < MaxHandles
    /\ handles' = Append(handles, [actor |-> handles[h].actor, live |-> TRUE,
                                   sent |-> 0, cloneOf |-> h])
    /\ UNCHANGED <<nActors, enqueued, closedWith, sendRet>>
    /\ UNCHANGED loopVars

\* Variant: clone moves the sender out of the source handle instead of
\* cloning it, leaving the source unusable.
CloneMove(h) ==
    /\ h \in 1..Len(handles)
    /\ handles[h].live
    /\ Len(handles) < MaxHandles
    /\ handles' = Append([handles EXCEPT ![h].live = FALSE],
                         [actor |-> handles[h].actor, live |-> TRUE,
                          sent |-> 0, cloneOf |-> h])
    /\ UNCHANGED <<nActors, enqueued, closedWith, sendRet>>
    /\ UNCHANGED loopVars

\* impl Clone for Handle: Handle(self.0.clone()), a new sender of the same
\* channel.
Clone(h) ==
    /\ h \in 1..Len(handles)
    /\ handles[h].live
    /\ Len(handles) < MaxHandles
    /\ handles' = Append(handles, [actor |-> handles[h].actor, live |-> TRUE,
                                   sent |-> 0, cloneOf |-> h])
    /\ UNCHANGED <<nActors, enqueued, closedWith, sendRet>>
    /\ UNCHANGED loopVars

\* Variant: dropping the last handle also throws away what is buffered.
DropHandleDiscard(h) ==
    /\ h \in 1..Len(handles)
    /\ handles[h].live
    /\ handles' = [handles EXCEPT ![h].live = FALSE]
    /\ closedWith' = IF LiveHandles(handles[h].actor) = {h}
                        THEN [closedWith EXCEPT ![handles[h].actor] =
                                 Len(mailbox[handles[h].actor])]
                        ELSE closedWith
    /\ mailbox' = IF LiveHandles(handles[h].actor) = {h}
                     THEN [mailbox EXCEPT ![handles[h].actor] = <<>>]
                     ELSE mailbox
    /\ UNCHANGED <<nActors, rxOpen, pc, cur, active, actor, actorDrops, recvLog,
                   enqueued, sendRet>>

\* Drop of a Handle (drop of its UnboundedSender): the sender count of the
\* channel goes down by one; at zero the producer side is closed.
DropHandle(h) ==
    /\ h \in 1..Len(handles)
    /\ handles[h].live
    /\ handles' = [handles EXCEPT ![h].live = FALSE]
    /\ closedWith' = IF LiveHandles(handles[h].actor) = {h}
                        THEN [closedWith EXCEPT ![handles[h].actor] =
                                 Len(mailbox[handles[h].actor])]
                        ELSE closedWith
    /\ UNCHANGED <<nActors, enqueued, sendRet>>
    /\ UNCHANGED loopVars

\* ---------------------------------------------------------------------
\* run_actor (steps of the spawned task of actor a)

\* Variant: the loop polls the receiver again while a recv call is still
\* running (the handler is not run to completion first).
AtAwaitOrInRecv(a) == pc[a] \in {"Spawned", "Waiting", "InRecv"}

\* The task is at `receiver.recv().await`: either not yet polled or
\* suspended there.
AtAwait(a) == pc[a] \in {"Spawned", "Waiting"}

\* receiver.recv() has a message to yield: Some(msg).
RecvSome(a) == mailbox[a] # <<>>

\* Variants of the loop's exit condition: the loop ends as soon as the queue
\* is empty; never; once any handle has been dropped; once every handle has
\* been dropped, whatever is still buffered.
RecvNoneWhenEmpty(a) == mailbox[a] = <<>>
RecvNoneStuck(a) == FALSE
RecvNoneAnyDropped(a) ==
    /\ mailbox[a] = <<>>
    /\ \E h \in 1..Len(handles) : handles[h].actor = a /\ ~handles[h].live
RecvNoneNoDrain(a) == LiveCount(a) = 0

\* receiver.recv() yields None: the queue is empty and every sender has
\* been dropped.
RecvNone(a) == mailbox[a] = <<>> /\ LiveCount(a) = 0

\* First poll of receiver.recv() finds no message and live senders: the
\* task suspends.
Park(a) ==
    /\ pc[a] = "Spawned"
    /\ ~RecvSome(a)
    /\ ~RecvNone(a)
    /\ pc' = [pc EXCEPT ![a] = "Waiting"]
    /\ UNCHANGED <<nActors, handles, mailbox, rxOpen, cur, active, actor,
                   actorDrops, recvLog, enqueued, closedWith, sendRet>>

\* Variant: the head of the queue is read but not removed.
DequeueNoPop(a) ==
    /\ AtAwait(a)
    /\ RecvSome(a)
    /\ cur' = [cur EXCEPT ![a] = Head(mailbox[a])]
    /\ recvLog' = [recvLog EXCEPT ![a] = Append(@, Head(mailbox[a]))]
    /\ active' = [active EXCEPT ![a] = @ + 1]
    /\ pc' = [pc EXCEPT ![a] = "InRecv"]
    /\ UNCHANGED <<nActors, handles, mailbox, rxOpen, actor, actorDrops, enqueued,
                   closedWith, sendRet>>

\* receiver.recv().await yields Some(msg), the head of the queue, and
\* actor.recv(msg) is invoked.
Dequeue(a) ==
    /\ AtAwait(a)
    /\ RecvSome(a)
    /\ cur' = [cur EXCEPT ![a] = Head(mailbox[a])]
    /\ mailbox' = [mailbox EXCEPT ![a] = Tail(@)]
    /\ recvLog' = [recvLog EXCEPT ![a] = Append(@, Head(mailbox[a]))]
    /\ active' = [active EXCEPT ![a] = @ + 1]
    /\ pc' = [pc EXCEPT ![a] = "InRecv"]
    /\ UNCHANGED <<nActors, handles, rxOpen, actor, actorDrops, enqueued,
                   closedWith, sendRet>>

\* actor.recv(msg) returns; the loop goes back to receiver.recv().await.
RecvReturn(a) ==
    /\ pc[a] = "InRecv"
    /\ actor' = [actor EXCEPT ![a] = @ + 1]
    /\ active' = [active EXCEPT ![a] = @ - 1]
    /\ cur' = [cur EXCEPT ![a] = NoMsg]
    /\ pc' = [pc EXCEPT ![a] = "Waiting"]
    /\ UNCHANGED <<nActors, handles, mailbox, rxOpen, actorDrops, recvLog,
                   enqueued, closedWith, sendRet>>

\* Variant: a panic inside one actor's recv takes every message loop down.
RecvFailAll(a) ==
    /\ pc[a] = "InRecv"
    /\ active' = [b \in Actors |-> 0]
    /\ cur' = [b \in Actors |-> NoMsg]
    /\ mailbox' = [b \in Actors |-> IF Running(b) THEN <<>> ELSE mailbox[b]]
    /\ rxOpen' = [b \in Actors |-> IF Running(b) THEN FALSE ELSE rxOpen[b]]
    /\ actorDrops' = [b \in Actors |->
                        IF Running(b) THEN actorDrops[b] + 1 ELSE actorDrops[b]]
    /\ pc' = [b \in Actors |-> IF Running(b) THEN "Failed" ELSE pc[b]]
    /\ UNCHANGED <<nActors, handles, actor, recvLog, enqueued, closedWith, sendRet>>

\* actor.recv(msg) panics: run_actor unwinds, dropping msg, the actor and
\* the receiver; dropping the receiver closes the channel and frees the
\* messages still buffered.
RecvFail(a) ==
    /\ pc[a] = "InRecv"
    /\ active' = [active EXCEPT ![a] = @ - 1]
    /\ cur' = [cur EXCEPT ![a] = NoMsg]
    /\ mailbox' = [mailbox EXCEPT ![a] = <<>>]
    /\ rxOpen' = [rxOpen EXCEPT ![a] = FALSE]
    /\ actorDrops' = [actorDrops EXCEPT ![a] = @ + 1]
    /\ pc' = [pc EXCEPT ![a] = "Failed"]
    /\ UNCHANGED <<nActors, handles, actor, recvLog, enqueued, closedWith, sendRet>>

\* Variant: run_actor returns without the actor value being dropped.
TerminateLeak(a) ==
    /\ AtAwait(a)
    /\ RecvNone(a)
    /\ rxOpen' = [rxOpen EXCEPT ![a] = FALSE]
    /\ pc' = [pc EXCEPT ![a] = "Terminated"]
    /\ UNCHANGED <<nActors, handles, mailbox, cur, active, actor, actorDrops,
                   recvLog, enqueued, closedWith, sendRet>>

\* receiver.recv().await yields None (queue empty and every sender
\* dropped): the while-let loop ends and run_actor returns, dropping the
\* receiver and the actor.
Terminate(a) ==
    /\ AtAwait(a)
    /\ RecvNone(a)
    /\ rxOpen' = [rxOpen EXCEPT ![a] = FALSE]
    /\ actorDrops' = [actorDrops EXCEPT ![a] = @ + 1]
    /\ pc' = [pc EXCEPT ![a] = "Terminated"]
    /\ UNCHANGED <<nActors, handles, mailbox, cur, active, actor, recvLog,
                   enqueued, closedWith, sendRet>>

\* One step of a's message loop.
LoopStep(a) ==
    Park(a) \/ Dequeue(a) \/ RecvReturn(a) \/ RecvFail(a) \/ Terminate(a)

\* ---------------------------------------------------------------------
\* Specifications

Next ==
    \/ New
    \/ \E h \in HandleIds : Send(h)
    \/ \E h \in HandleIds : Clone(h)
    \/ \E h \in HandleIds : DropHandle(h)
    \/ \E a \in Actors : Park(a)
    \/ \E a \in Actors : Dequeue(a)
    \/ \E a \in Actors : RecvReturn(a)
    \/ \E a \in Actors : RecvFail(a)
    \/ \E a \in Actors : Terminate(a)

Spec == Init /\ [][Next]_vars

\* The host scheduler keeps polling every spawned task that can make
\* progress (tokio::spawn), so each loop's steps are weakly fair.  Caller
\* tasks are under no obligation to send, clone or drop.
FairSpec == Spec /\ \A a \in Actors : WF_vars(LoopStep(a))

TypeOK ==
    /\ nActors \in 0..MaxActors
    /\ Len(handles) <= MaxHandles
    /\ \A h \in 1..Len(handles) :
          /\ handles[h].actor \in 1..nActors
          /\ handles[h].live \in BOOLEAN
          /\ handles[h].sent \in 0..MaxSends
          /\ handles[h].cloneOf \in 0..(h - 1)
    /\ pc \in [Actors -> {"Absent", "Spawned", "Waiting", "InRecv", "Terminated", "Failed"}]
    /\ rxOpen \in [Actors -> BOOLEAN]
    /\ \A a \in Actors : cur[a] \in Msgs \cup {NoMsg}
    /\ sendRet \in {"none", "unit", "panic"}

\* ---------------------------------------------------------------------
\* Properties

\* The elements of a sequence.
Range(s) == {s[i] : i \in 1..Len(s)}

\* The messages the channel of actor a has accepted.
AcceptedBy(a) == {m \in enqueued : handles[m.from].actor = a}

\* The loop of a is idle: suspended at the await with nothing buffered.
Idle(a) == pc[a] = "Waiting" /\ mailbox[a] = <<>>

\* C1 (strict serialization): at most one invocation of an actor's recv is
\* in progress at any time, and the loop takes a message out of the mailbox
\* (a new recv invocation is logged) only when no invocation is in progress
\* and every earlier invocation has returned; this constrains every step,
\* whatever the sends, clones and drops interleaved with it.
C1_StrictSerialization ==
    [][\A a \in Actors :
          /\ active'[a] <= 1
          /\ Len(recvLog'[a]) > Len(recvLog[a]) =>
                /\ active[a] = 0
                /\ actor[a] = Len(recvLog[a])
                /\ Len(recvLog'[a]) = Len(recvLog[a]) + 1
                /\ mailbox[a] # <<>>
                /\ recvLog'[a][Len(recvLog'[a])] = Head(mailbox[a])]_vars

\* A recv call is running for a message of one producer, an earlier call has
\* completed, and a message of another producer waits in the mailbox.
C1_Witness ==
    \E a \in Actors :
        /\ pc[a] = "InRecv"
        /\ actor[a] >= 1
        /\ mailbox[a] # <<>>
        /\ Head(mailbox[a]).from # cur[a].from

\* C2 (per-producer FIFO): in the order of recv invocations of an actor,
\* two messages of the same producer appear in the order of their send, and
\* a message is passed to recv only after every message the same producer
\* sent before it.
C2_PerProducerFifo ==
    \A a \in Actors : \A j \in 1..Len(recvLog[a]) :
        /\ \A i \in 1..(j - 1) :
              recvLog[a][i].from = recvLog[a][j].from
                  => recvLog[a][i].seq < recvLog[a][j].seq
        /\ \A k \in 1..(recvLog[a][j].seq - 1) :
              \E i \in 1..(j - 1) :
                  recvLog[a][i] = [from |-> recvLog[a][j].from, seq |-> k]

\* Two producers' sends interleaved: recv saw a message of one producer
\* between the first and the second message of the other.
C2_Witness ==
    \E a \in Actors :
        /\ Len(recvLog[a]) = 3
        /\ recvLog[a][1].from = recvLog[a][3].from
        /\ recvLog[a][2].from # recvLog[a][1].from

\* C3 (exactly-once delivery): recv has never been invoked more often than
\* send was called on the actor's handles, no message appears twice among
\* the recv invocations, and when the loop waits at an empty mailbox the
\* number of invocations and the actor's counter equal the number of sends.
C3_ExactlyOnce ==
    \A a \in Actors :
        /\ Len(recvLog[a]) <= SentTo(a)
        /\ \A i, j \in 1..Len(recvLog[a]) : i # j => recvLog[a][i] # recvLog[a][j]
        /\ Idle(a) => Len(recvLog[a]) = SentTo(a) /\ actor[a] = SentTo(a)

\* A single producer has sent MaxSends messages and the idle loop has
\* counted them all.
C3_Witness ==
    \E a \in Actors : \E h \in 1..Len(handles) :
        /\ handles[h].actor = a
        /\ handles[h].sent = MaxSends
        /\ Idle(a)
        /\ actor[a] = MaxSends

\* C4 (graceful drain on drop): a loop that has terminated has an empty
\* mailbox and has run recv to completion on every message its channel
\* accepted; and as long as recv has not failed, every accepted message is
\* still buffered or has been passed to recv, so dropping handles discards
\* nothing.
C4_GracefulDrain ==
    \A a \in Actors :
        /\ Terminated(a) =>
              /\ mailbox[a] = <<>>
              /\ actor[a] = Len(recvLog[a])
              /\ AcceptedBy(a) \subseteq Range(recvLog[a])
        /\ ~Failed(a) =>
              AcceptedBy(a) \subseteq Range(mailbox[a]) \cup Range(recvLog[a])

\* The last handle was dropped while two or more messages were buffered,
\* and the loop has terminated after passing them to recv.
C4_Witness ==
    \E a \in Actors :
        /\ Terminated(a)
        /\ closedWith[a] >= 2
        /\ Len(recvLog[a]) >= 2

\* C5 (cloneability): a clone targets the actor of the handle it was cloned
\* from; there are exactly as many message loops as handles made by
\* Handle::new; every message recv is invoked with came through a handle of
\* that very actor; and when the loop is idle the actor's counter is the sum
\* of the sends of all its handles, original and clones.
C5_Cloneability ==
    /\ \A h \in 1..Len(handles) :
          handles[h].cloneOf # 0 =>
              handles[h].actor = handles[handles[h].cloneOf].actor
    /\ Cardinality({a \in Actors : pc[a] # "Absent"})
          = Cardinality({h \in 1..Len(handles) : handles[h].cloneOf = 0})
    /\ \A a \in Actors :
          /\ \A i \in 1..Len(recvLog[a]) : handles[recvLog[a][i].from].actor = a
          /\ Idle(a) => actor[a] = SentTo(a)

\* An original handle and its clone have both sent, and the one actor has
\* counted the messages of both.
C5_Witness ==
    \E a \in Actors : \E h1, h2 \in 1..Len(handles) :
        /\ handles[h2].cloneOf = h1
        /\ handles[h1].actor = a
        /\ handles[h1].sent >= 1
        /\ handles[h2].sent >= 1
        /\ Idle(a)
        /\ actor[a] = handles[h1].sent + handles[h2].sent
        /\ actor[a] = MaxSends

\* C6 (sole shutdown condition): a loop becomes Terminated only from a
\* Running state, at the await, in which its mailbox is empty and no handle
\* of its actor is live; and whenever it is Terminated no handle is live and
\* nothing is buffered.
C6_SoleShutdown ==
    [][\A a \in Actors :
          /\ (pc'[a] = "Terminated" /\ pc[a] # "Terminated") =>
                /\ Running(a)
                /\ pc[a] # "InRecv"
                /\ mailbox[a] = <<>>
                /\ LiveCount(a) = 0
          /\ pc'[a] = "Terminated" =>
                /\ LiveCount(a)' = 0
                /\ mailbox'[a] = <<>>]_vars

\* A loop has terminated after both an original handle and a clone were
\* dropped, having received messages.
C6_Witness ==
    \E a \in Actors :
        /\ Terminated(a)
        /\ recvLog[a] # <<>>
        /\ \E h \in 1..Len(handles) :
              handles[h].actor = a /\ handles[h].cloneOf # 0

\* The actor of some handle exists and none of its handles is live.
Closed(a) == pc[a] # "Absent" /\ LiveCount(a) = 0

\* C7 as claimed: once the last handle is dropped the loop eventually
\* reaches Terminated, and it never is Terminated while a handle is live.
C7_AsClaimed ==
    /\ \A a \in Actors : Closed(a) ~> Terminated(a)
    /\ [][\A a \in Actors : LiveCount(a)' > 0 => pc'[a] # "Terminated"]_vars

\* C7 (automatic shutdown), amended: once the last handle is dropped the
\* loop eventually reaches Terminated or has stopped because a recv call
\* failed, and it never is Terminated while a handle is live.
C7_AutomaticShutdown ==
    /\ \A a \in Actors : Closed(a) ~> (Terminated(a) \/ Failed(a))
    /\ [][\A a \in Actors : LiveCount(a)' > 0 => pc'[a] # "Terminated"]_vars

\* The last handle was dropped with a message still buffered, and the loop
\* has drained it and terminated.
C7_Witness ==
    \E a \in Actors :
        /\ Terminated(a)
        /\ closedWith[a] >= 1
        /\ actor[a] >= closedWith[a]

\* C8 as claimed: while a handle of an actor is live, its mailbox is open
\* and its loop is not Terminated.
C8_AsClaimed ==
    \A a \in Actors :
        LiveCount(a) > 0 => rxOpen[a] /\ ~Terminated(a) /\ ChanSend(a) = "Ok"

\* C8 (reachability invariant), amended: while a handle of an actor is
\* live its loop is not Terminated, and unless a recv call of that actor
\* has failed the loop is Running and the mailbox is open, so that a send
\* is accepted.
C8_Reachability ==
    \A a \in Actors :
        LiveCount(a) > 0 =>
            /\ ~Terminated(a)
            /\ ~Failed(a) => Running(a) /\ rxOpen[a] /\ ChanSend(a) = "Ok"

\* The original handle is gone, a clone is still live, and a message sent
\* meanwhile is buffered for the running loop.
C8_Witness ==
    \E a \in Actors : \E h1, h2 \in 1..Len(handles) :
        /\ handles[h1].actor = a /\ handles[h1].cloneOf = 0 /\ ~handles[h1].live
        /\ handles[h2].actor = a /\ handles[h2].cloneOf # 0 /\ handles[h2].live
        /\ Running(a)
        /\ mailbox[a] # <<>>

\* C9 (send to a terminated loop): a send on a handle whose actor's loop
\* is no longer running returns () to the caller and changes nothing but
\* that handle's count of sends: nothing is enqueued, recv is not invoked,
\* and the actor state, the mailbox and the handles' liveness stay as they
\* were.
C9_SendAfterTermination ==
    [][\A h \in HandleIds :
          (/\ h <= Len(handles)
           /\ Len(handles') = Len(handles)
           /\ handles'[h].sent = handles[h].sent + 1
           /\ ~Running(handles[h].actor)) =>
              /\ sendRet' = "unit"
              /\ handles' = [handles EXCEPT ![h].sent = @ + 1]
              /\ UNCHANGED <<nActors, mailbox, rxOpen, pc, cur, active, actor,
                             actorDrops, recvLog, enqueued, closedWith>>]_vars

\* A live handle has sent to a loop that had stopped: the send returned (),
\* and its message was not accepted.
C9_Witness ==
    \E h \in 1..Len(handles) :
        /\ handles[h].live
        /\ handles[h].sent >= 1
        /\ ~Running(handles[h].actor)
        /\ [from |-> h, seq |-> handles[h].sent] \notin enqueued
        /\ sendRet = "unit"

\* C10 (send racing with drop): no send ends in a failure of the caller;
\* every message sent was either accepted, and is then buffered, passed to
\* recv or lost with a failed recv, or was rejected while the receiver was
\* gone and is nowhere; a loop that has terminated has passed every accepted
\* message to recv; and a running loop with work to do or with all handles
\* dropped always has a step to take.
C10_SendRacingDrop ==
    /\ sendRet # "panic"
    /\ \A h \in 1..Len(handles) : \A k \in 1..handles[h].sent :
          LET m == [from |-> h, seq |-> k]
              a == handles[h].actor
              held == m \in Range(mailbox[a]) \/ m \in Range(recvLog[a])
          IN \/ m \in enqueued /\ (held \/ Failed(a))
             \/ m \notin enqueued /\ ~held /\ ~rxOpen[a]
    /\ \A a \in Actors :
          /\ Terminated(a) => AcceptedBy(a) \subseteq Range(recvLog[a])
          /\ (Running(a) /\ (mailbox[a] # <<>> \/ LiveCount(a) = 0 \/ pc[a] = "InRecv"))
                => ENABLED LoopStep(a)

\* Both handles of an actor have been dropped while a message sent through
\* the clone is still buffered and the loop has yet to take it.
C10_Witness ==
    \E a \in Actors : \E h \in 1..Len(handles) :
        /\ handles[h].actor = a
        /\ handles[h].cloneOf # 0
        /\ LiveCount(a) = 0
        /\ closedWith[a] >= 1
        /\ Running(a)
        /\ [from |-> h, seq |-> 1] \in Range(mailbox[a])

\* A step in which a recv call of actor a fails.
FailStep(a) == pc[a] # "Failed" /\ pc'[a] = "Failed"

\* A step in which handle h performs a send.
SendStep(h) ==
    /\ h <= Len(handles)
    /\ Len(handles') = Len(handles)
    /\ handles'[h].sent = handles[h].sent + 1

\* C11 (handler failure isolation): a step in which recv of actor a fails
\* changes nothing of any other actor (loop position, state, mailbox,
\* receiver, recv invocations); a failed loop stays failed and its recv is
\* never invoked again; and every other actor still counts each message
\* sent to it by the time its loop is idle.
C11_FailureIsolation ==
    [][\A a \in Actors :
          /\ FailStep(a) =>
                \A b \in Actors \ {a} :
                    /\ pc'[b] = pc[b]
                    /\ actor'[b] = actor[b]
                    /\ mailbox'[b] = mailbox[b]
                    /\ rxOpen'[b] = rxOpen[b]
                    /\ recvLog'[b] = recvLog[b]
                    /\ actorDrops'[b] = actorDrops[b]
          /\ Failed(a) =>
                /\ pc'[a] = "Failed"
                /\ recvLog'[a] = recvLog[a]
                /\ actor'[a] = actor[a]
                /\ active'[a] = 0
          /\ Idle(a)' => actor'[a] = SentTo(a)']_vars

\* The recv of one actor has failed, and another actor, whose handle is
\* live, has received a message and is idle with its mailbox drained.
C11_Witness ==
    \E a, b \in Actors :
        /\ a # b
        /\ Failed(a)
        /\ Idle(b)
        /\ actor[b] >= 1
        /\ LiveCount(b) > 0

C13_NonBlockingSend ==
    [][\A h \in HandleIds :
          /\ (h <= Len(handles) /\ handles[h].live /\ TotalSent < MaxSends)
                => ENABLED Send(h)
          /\ (SendStep(h) /\ rxOpen[handles[h].actor]) =>
                LET a == handles[h].actor
                    m == [from |-> h, seq |-> handles[h].sent + 1]
                IN /\ mailbox'[a] = Append(mailbox[a], m)
                   /\ m \notin Range(recvLog'[a])
                   /\ UNCHANGED <<pc, cur, active, actor, recvLog>>]_vars

\* Messages were sent while a recv call was running and the mailbox was
\* not empty: two are buffered behind the running call.
C13_Witness ==
    \E a \in Actors :
        /\ pc[a] = "InRecv"
        /\ Len(mailbox[a]) >= 2

\* A step in which a handle is cloned.
CloneStep ==
    /\ Len(handles') = Len(handles) + 1
    /\ handles'[Len(handles')].cloneOf # 0

C15_StateIsolation ==
    [][\A a \in Actors :
          /\ actor'[a] # actor[a] =>
                /\ pc[a] = "InRecv"
                /\ pc'[a] = "Waiting"
                /\ active[a] = 1
                /\ cur[a] = recvLog[a][Len(recvLog[a])]
                /\ actor'[a] = actor[a] + 1
                /\ handles' = handles
                /\ nActors' = nActors
                /\ \A b \in Actors \ {a} : actor'[b] = actor[b]
          /\ (handles' # handles \/ nActors' # nActors) => actor' = actor]_vars

\* An actor whose handle was cloned, used for sends by both handles and
\* partly dropped has had its state changed by exactly one recv call.
C15_Witness ==
    \E a \in Actors : \E h1, h2 \in 1..Len(handles) :
        /\ handles[h1].actor = a /\ handles[h2].actor = a
        /\ handles[h2].cloneOf = h1
        /\ ~handles[h1].live
        /\ handles[h1].sent >= 1 /\ handles[h2].sent >= 1
        /\ actor[a] = 1

\* C16 as claimed: the actor value is alive while its loop is Running and
\* is dropped exactly once, in the step to Terminated.
C16_AsClaimed ==
    [][\A a \in Actors :
          /\ Running(a)' => actorDrops'[a] = 0
          /\ actorDrops'[a] <= 1
          /\ actorDrops'[a] # actorDrops[a] =>
                pc[a] # "Terminated" /\ pc'[a] = "Terminated"]_vars

\* C16 (actor dropped at termination), amended: the actor value is alive
\* while its loop is Running and is dropped exactly once, in the step that
\* ends the loop: the step to Terminated, or the step in which a recv call
\* fails.  Once the loop has ended recv is never invoked again, and
\* Terminated is absorbing.
C16_ActorDropped ==
    [][\A a \in Actors :
          /\ Running(a)' => actorDrops'[a] = 0
          /\ (Terminated(a)' \/ Failed(a)') => actorDrops'[a] = 1
          /\ actorDrops'[a] # actorDrops[a] =>
                /\ Running(a)
                /\ Terminated(a)' \/ Failed(a)'
                /\ actorDrops'[a] = actorDrops[a] + 1
          /\ (Running(a) /\ ~Running(a)') => actorDrops'[a] = actorDrops[a] + 1
          /\ Terminated(a) =>
                /\ Terminated(a)'
                /\ recvLog'[a] = recvLog[a]
                /\ actor'[a] = actor[a]
                /\ active'[a] = 0
          /\ (pc[a] = "Absent" /\ pc'[a] # "Absent") => Running(a)'
          /\ Failed(a) => recvLog'[a] = recvLog[a]]_vars

\* A loop has returned after its recv ran, and its actor value has been
\* dropped once.
C16_Witness ==
    \E a \in Actors :
        /\ Terminated(a)
        /\ actor[a] >= 1
        /\ actorDrops[a] = 1

\* C17 (producer closure is permanent): the live-handle count of an actor
\* is never negative and never exceeds the number of handles made for it; a
\* clone is only taken from a live handle; once an existing actor's count
\* is zero it stays zero, no send to it happens any more, and its mailbox
\* only loses messages from the head (one taken by the loop, or all of
\* them discarded when a recv fails).
C17_ClosurePermanent ==
    [][/\ \A a \in Actors :
             /\ LiveCount(a)' \in 0..Len(handles')
             /\ Closed(a) =>
                   /\ Closed(a)'
                   /\ SentTo(a)' = SentTo(a)
                   /\ Len(mailbox'[a]) <= Len(mailbox[a])
                   /\ \E k \in 0..Len(mailbox[a]) :
                         mailbox'[a] = SubSeq(mailbox[a], k + 1, Len(mailbox[a]))
       /\ CloneStep => handles[handles'[Len(handles')].cloneOf].live
       /\ \A h \in 1..Len(handles) :
             ~handles[h].live => /\ ~handles'[h].live
                                 /\ handles'[h].sent = handles[h].sent]_vars

\* All handles of an actor are dropped while its loop still runs with a
\* message buffered, and the program could still clone and send elsewhere.
C17_Witness ==
    \E a \in Actors :
        /\ Closed(a)
        /\ Running(a)
        /\ mailbox[a] # <<>>
        /\ \E h \in 1..Len(handles) : handles[h].actor = a /\ handles[h].cloneOf # 0
        /\ TotalSent < MaxSends

\* C18 (effect of a handler failure on the actor's own senders): the step
\* in which recv fails discards the buffered messages, none of which was
\* delivered; from then on the actor's delivery log and its empty mailbox
\* never change, so those messages are never delivered; a later send on a
\* live handle of the failed actor returns () like every send, enqueues
\* nothing and moves no loop.
C18_FailureSilentToSenders ==
    [][/\ \A a \in Actors :
             /\ FailStep(a) =>
                   /\ Range(mailbox[a]) \cap Range(recvLog'[a]) = {}
                   /\ mailbox'[a] = <<>>
                   /\ ~rxOpen'[a]
                   /\ handles' = handles
                   /\ sendRet' = sendRet
             /\ Failed(a) =>
                   /\ Failed(a)'
                   /\ recvLog'[a] = recvLog[a]
                   /\ mailbox[a] = <<>> /\ mailbox'[a] = <<>>
                   /\ cur'[a] = NoMsg
                   /\ ~rxOpen'[a]
       /\ \A h \in HandleIds :
             SendStep(h) =>
                /\ sendRet' = "unit"
                /\ Failed(handles[h].actor) =>
                      /\ enqueued' = enqueued
                      /\ UNCHANGED loopVars]_vars

\* A recv failed while a second message of a live handle was buffered, and
\* that handle has sent a third message since: the second was enqueued but
\* never delivered, the third was never enqueued, and the send returned ().
C18_Witness ==
    \E h \in 1..Len(handles) :
        LET a == handles[h].actor
        IN /\ Failed(a)
           /\ handles[h].live
           /\ handles[h].sent = 3
           /\ [from |-> h, seq |-> 2] \in enqueued
           /\ [from |-> h, seq |-> 2] \notin Range(recvLog[a])
           /\ [from |-> h, seq |-> 3] \notin enqueued
           /\ sendRet = "unit"

\* The handles returned by Handle::new (not made by clone).
Originals(a) == {h \in 1..Len(handles) : handles[h].actor = a /\ handles[h].cloneOf = 0}

\* C19 (mailbox separation between actors): every actor that exists has
\* exactly one handle made by new, and a clone belongs to the actor of its
\* source; every message in an actor's mailbox, in its recv or in its
\* delivery log was sent through a handle of that actor; a loop that
\* returns has no live handle, and its return, like the drop of a handle,
\* leaves every other actor's loop, mailbox and state as they were.
C19_MailboxSeparation ==
    [][/\ \A a \in Actors :
             /\ pc'[a] # "Absent" => Cardinality(Originals(a)') = 1
             /\ pc'[a] = "Absent" => LiveHandles(a)' = {} /\ mailbox'[a] = <<>>
             /\ \A m \in Range(mailbox'[a]) \cup Range(recvLog'[a])
                         \cup ({cur'[a]} \ {NoMsg}) :
                   /\ m.from \in 1..Len(handles')
                   /\ handles'[m.from].actor = a
             /\ Terminated(a)' => LiveCount(a)' = 0
             /\ (~Terminated(a) /\ Terminated(a)') =>
                   \A b \in Actors \ {a} :
                      /\ pc'[b] = pc[b] /\ mailbox'[b] = mailbox[b]
                      /\ rxOpen'[b] = rxOpen[b] /\ actor'[b] = actor[b]
                      /\ recvLog'[b] = recvLog[b]
             /\ LiveCount(a)' < LiveCount(a) =>
                   /\ UNCHANGED loopVars
                   /\ \A b \in Actors \ {a} : LiveCount(b)' = LiveCount(b)
       /\ \A h \in 1..Len(handles') :
             handles'[h].cloneOf # 0 =>
                handles'[h].actor = handles'[handles'[h].cloneOf].actor]_vars

\* Two actors have each received a message of their own; all handles of the
\* first were dropped and its loop returned, while the second, with a live
\* handle, keeps running.
C19_Witness ==
    /\ recvLog[1] # <<>>
    /\ recvLog[2] # <<>>
    /\ \A m \in Range(recvLog[1]) : handles[m.from].actor = 1
    /\ \A m \in Range(recvLog[2]) : handles[m.from].actor = 2
    /\ Terminated(1)
    /\ Running(2)
    /\ LiveCount(2) > 0

====
